---- MODULE Spec2Model ----
(***************************************************************************)
(* Model of command/cmd_copy.go of s5cmd: the batch copy (Copy), its three *)
(* executors (doCopy, doUpload, doDownload), the two destination resolvers *)
(* (prepareCopyDestination, prepareDownloadDestination) and the overwrite  *)
(* policy closure.  The storage clients, the location type (objurl), the   *)
(* task runner (parallel) and shouldOverride live in other packages; they  *)
(* are modelled by what the specification says of them.                    *)
(***************************************************************************)
EXTENDS Integers, Sequences, FiniteSets, TLC

\* Number of objects the source expander puts on the object channel.
MaxObjects == 2

\* Number of tasks the runner lets run at a time ("more than one, and finite").
NumWorkers == 2

\* Sizes and modification times a Stat may report.
MaxSize == 2
MaxTime == 2

\* The largest number of arguments the cp command is given.
MaxArgs == 3

VARIABLES
    srcRemote,      \* srcurl.IsRemote()
    dstRemote,      \* dsturl.IsRemote()
    srcHasGlob,     \* srcurl.HasGlob()
    dsturl,         \* the destination argument, as a sequence of path tokens
    deleteSource,   \* Copy's deleteSource parameter
    noClobber,      \* flag no-clobber
    ifSizeDiffer,   \* flag if-size-differ
    ifSourceNewer,  \* flag if-source-newer
    parents,        \* flag parents
    objch,          \* the objects expandSource delivers: a sequence of kinds
    next,           \* position of Copy's range loop in objch
    copyPc,         \* Copy: "idle" (not yet at its loop), "loop", "done"
    result,         \* the error Copy returned (a sequence of errors)
    printed,        \* number of enumeration errors given to printError
    wg,             \* waiter's WaitGroup counter
    merror,         \* Copy's merror: the errors folded so far
    aggPc,          \* aggregator goroutine: "recv", "append"
    pending,        \* the error the aggregator received and has not yet appended
    pc,             \* pc[i]: position of the task of object i
    dst,            \* dst[i]: the destination the task of object i resolved
    err,            \* err[i]: the error the task of object i returns
    ops,            \* ops[i]: the storage and file calls the task issued, in order
    seen,           \* seen[i]: what the destination was when the task resolved it
    outcome,        \* outcome[i]: "none", "skipped", "ok", "failed"
    fs,             \* state of the destination and of the entries below it
    pol,            \* record of one evaluation of the overwrite policy
    cmd             \* the cp command: its arguments and its position up to Copy's loop

vars == <<srcRemote, dstRemote, srcHasGlob, dsturl, deleteSource, noClobber,
          ifSizeDiffer, ifSourceNewer, parents, objch, next, copyPc, result,
          printed, wg, merror, aggPc, pending, pc, dst, err, ops, seen,
          outcome, fs, pol, cmd>>

config == <<srcRemote, dstRemote, srcHasGlob, dsturl, deleteSource, noClobber,
            ifSizeDiffer, ifSourceNewer, parents, objch, cmd>>

flags == <<srcRemote, dstRemote, srcHasGlob, dsturl, deleteSource, noClobber,
           ifSizeDiffer, ifSourceNewer, parents>>

---------------------------------------------------------------------------
\* Locations (package objurl): a path is a sequence of tokens, "/" among them.

Objects == 1..MaxObjects

\* Path of object i relative to the root the source was enumerated at.
Relative(i) ==
    CASE i = 1 -> <<"a", "/", "b.txt">>
      [] i = 2 -> <<"b.txt">>
      [] OTHER -> <<"c.txt">>

Base(i) == <<Relative(i)[Len(Relative(i))]>>

HasSuffixSlash(p) == Len(p) > 0 /\ p[Len(p)] = "/"

Join(p, name) == IF HasSuffixSlash(p) THEN p \o name ELSE p \o <<"/">> \o name

Dir(p) ==
    IF HasSuffixSlash(p) THEN SubSeq(p, 1, Len(p) - 1)
    ELSE IF Len(p) <= 2 THEN <<>>
    ELSE SubSeq(p, 1, Len(p) - 2)

\* The destination argument is "d" or "d/"; Key is the part of a path below it.
Key(p) == IF Len(p) <= 2 THEN <<>> ELSE SubSeq(p, 3, Len(p))

Root == <<>>

Keys == {Root} \cup {Relative(i) : i \in Objects} \cup {Base(i) : i \in Objects}

None == [wrapped |-> FALSE, op |-> "", src |-> 0, dst |-> <<>>, cause |-> ""]

Op == "cp"

\* An error returned bare.
Bare(c) == [wrapped |-> FALSE, op |-> "", src |-> 0, dst |-> <<>>, cause |-> c]

\* errorpkg.Error{Op, Src, Dst, Err}
Wrap(i, d, c) == [wrapped |-> TRUE, op |-> Op, src |-> i, dst |-> d, cause |-> c]

Call(c, ok) == [call |-> c, ok |-> ok]

---------------------------------------------------------------------------
\* Storage and file system, as far as the destination is concerned.

\* What Stat reports for path p: ErrGivenObjectNotFound, or the object's type.
StatOf(f, p) == IF f[Key(p)] = "absent" THEN "notfound" ELSE f[Key(p)]

\* os.MkdirAll(p): creates the destination directory when p is at or below it;
\* its error is ignored by the callers.
MkdirAll(f, p) ==
    IF Len(p) >= 1 /\ f[Root] = "absent" THEN [f EXCEPT ![Root] = "dir"] ELSE f

\* Whether the local file p can be created: its directory must exist, and p
\* must not be a directory.
CanCreate(f, p) ==
    IF Key(p) = Root THEN f[Root] # "dir" ELSE f[Root] = "dir"

Sizes == 1..MaxSize
Times == 1..MaxTime

---------------------------------------------------------------------------
\* Overwrite policy.

\* shouldOverride: st is the result of the destination's Stat.
ShouldOverride(nc, sd, sn, st, srcSize, dstSize, srcMod, dstMod) ==
    IF st = "error" THEN "error"
    ELSE IF st = "notfound" THEN "proceed"
    ELSE IF nc \/ (sd /\ dstSize = srcSize) \/ (sn /\ dstMod >= srcMod)
         THEN "skip"
         ELSE "proceed"

ShouldOverrideFuncSwapped(st, srcSize, dstSize, srcMod, dstMod) ==
    ShouldOverride(ifSizeDiffer, noClobber, ifSourceNewer,
                   st, srcSize, dstSize, srcMod, dstMod)

ShouldOverrideFuncWithoutNoClobber(st, srcSize, dstSize, srcMod, dstMod) ==
    ShouldOverride(FALSE, ifSizeDiffer, ifSourceNewer,
                   st, srcSize, dstSize, srcMod, dstMod)

\* The closure Copy hands to the executors.
ShouldOverrideFunc(st, srcSize, dstSize, srcMod, dstMod) ==
    ShouldOverride(noClobber, ifSizeDiffer, ifSourceNewer,
                   st, srcSize, dstSize, srcMod, dstMod)

\* isWarning: the skip signal is a warning, a stat failure is not.
isWarning(out) == out = "skip"

---------------------------------------------------------------------------
\* Destination resolution.

objname(i) == IF parents THEN Relative(i) ELSE Base(i)

Resolved(d, f, st) == [ok |-> TRUE, dst |-> d, cause |-> "", fs |-> f, st |-> st]
Failed(c, f, st) == [ok |-> FALSE, dst |-> <<>>, cause |-> c, fs |-> f, st |-> st]

PrepareCopyDestinationJoinsDirectory(i, f, nc, se) ==
    IF dstRemote
    THEN IF HasSuffixSlash(dsturl)
         THEN Resolved(Join(dsturl, objname(i)), f, StatOf(f, dsturl))
         ELSE Resolved(dsturl, f, StatOf(f, dsturl))
    ELSE IF ~nc THEN Failed("NewClient", f, "none")
    ELSE IF se THEN Failed("Stat", f, "error")
    ELSE IF ~srcHasGlob /\ StatOf(f, dsturl) # "dir"
         THEN Resolved(dsturl, f, StatOf(f, dsturl))
    ELSE IF StatOf(f, dsturl) = "file" THEN Failed("NotDirectory", f, "file")
    ELSE Resolved(Join(dsturl, objname(i)), f, StatOf(f, dsturl))

PrepareCopyDestinationNoPrefix(i, f, nc, se) ==
    IF dstRemote
    THEN Resolved(dsturl, f, StatOf(f, dsturl))
    ELSE IF ~nc THEN Failed("NewClient", f, "none")
    ELSE IF se THEN Failed("Stat", f, "error")
    ELSE IF ~srcHasGlob THEN Resolved(dsturl, f, StatOf(f, dsturl))
    ELSE IF StatOf(f, dsturl) = "file" THEN Failed("NotDirectory", f, "file")
    ELSE Resolved(Join(dsturl, objname(i)), f, StatOf(f, dsturl))

\* prepareCopyDestination: f is the file system, nc whether NewClient succeeds,
\* se whether Stat fails with an error other than not-found.  The result
\* carries what the destination was found to be (a remote one is not asked).
PrepareCopyDestination(i, f, nc, se) ==
    IF dstRemote
    THEN IF HasSuffixSlash(dsturl)
         THEN Resolved(Join(dsturl, objname(i)), f, StatOf(f, dsturl))
         ELSE Resolved(dsturl, f, StatOf(f, dsturl))
    ELSE IF ~nc THEN Failed("NewClient", f, "none")
    ELSE IF se THEN Failed("Stat", f, "error")
    ELSE IF ~srcHasGlob THEN Resolved(dsturl, f, StatOf(f, dsturl))
    ELSE IF StatOf(f, dsturl) = "file" THEN Failed("NotDirectory", f, "file")
    ELSE Resolved(Join(dsturl, objname(i)), f, StatOf(f, dsturl))

PrepareDownloadDestinationTwice(i, f, nc, se) ==
    LET f1 == IF srcHasGlob THEN MkdirAll(f, dsturl) ELSE f
        st == IF se THEN "error" ELSE StatOf(f1, dsturl)
        d1 == IF parents THEN Join(dsturl, objname(i)) ELSE dsturl
        f2 == IF parents THEN MkdirAll(f1, Dir(d1)) ELSE f1
    IN  IF ~nc THEN Failed("NewClient", f1, "none")
        ELSE IF st = "error" THEN Failed("Stat", f1, st)
        ELSE IF parents /\ st = "file" THEN Failed("NotDirectory", f1, st)
        ELSE IF st = "notfound"
             THEN Resolved(IF HasSuffixSlash(dsturl) THEN Join(d1, objname(i)) ELSE d1,
                           MkdirAll(f2, Dir(d1)), st)
             ELSE Resolved(IF st = "dir" THEN Join(dsturl, objname(i)) ELSE d1,
                           f2, st)

PrepareDownloadDestinationStatFirst(i, f, nc, se) ==
    LET st == IF se THEN "error" ELSE StatOf(f, dsturl)
        f1 == IF srcHasGlob THEN MkdirAll(f, dsturl) ELSE f
        d1 == IF parents THEN Join(dsturl, objname(i)) ELSE dsturl
        f2 == IF parents THEN MkdirAll(f1, Dir(d1)) ELSE f1
    IN  IF ~nc THEN Failed("NewClient", f1, "none")
        ELSE IF st = "error" THEN Failed("Stat", f1, st)
        ELSE IF parents /\ st = "file" THEN Failed("NotDirectory", f1, st)
        ELSE IF st = "notfound"
             THEN Resolved(IF HasSuffixSlash(d1) THEN Join(d1, objname(i)) ELSE d1,
                           MkdirAll(f2, Dir(d1)), st)
             ELSE Resolved(IF st = "dir" THEN Join(dsturl, objname(i)) ELSE d1,
                           f2, st)

\* prepareDownloadDestination
PrepareDownloadDestination(i, f, nc, se) ==
    LET f1 == IF srcHasGlob THEN MkdirAll(f, dsturl) ELSE f
        st == IF se THEN "error" ELSE StatOf(f1, dsturl)
        d1 == IF parents THEN Join(dsturl, objname(i)) ELSE dsturl
        f2 == IF parents THEN MkdirAll(f1, Dir(d1)) ELSE f1
    IN  IF ~nc THEN Failed("NewClient", f1, "none")
        ELSE IF st = "error" THEN Failed("Stat", f1, st)
        ELSE IF parents /\ st = "file" THEN Failed("NotDirectory", f1, st)
        ELSE IF st = "notfound"
             THEN Resolved(IF HasSuffixSlash(d1) THEN Join(d1, objname(i)) ELSE d1,
                           MkdirAll(f2, Dir(d1)), st)
             ELSE Resolved(IF st = "dir" THEN Join(dsturl, objname(i)) ELSE d1,
                           f2, st)

UploadDestinationAsCopy(i) ==
    IF HasSuffixSlash(dsturl) THEN Join(dsturl, objname(i)) ELSE dsturl

\* doUpload's destination: dst.Join(objname)
UploadDestination(i) == Join(dsturl, objname(i))

---------------------------------------------------------------------------
\* Initial states: one call of Copy, after expandSource returned the channel.

Kinds == {"file", "dir", "err"}

\* The destination before the batch: absent, a file, or (local) a directory
\* whose entries are all absent or all existing files.
InitFs ==
    {[k \in Keys |-> IF k = Root THEN r ELSE c] :
        r \in {"absent", "file"}, c \in {"absent"}}
    \cup
    {[k \in Keys |-> IF k = Root THEN r ELSE c] :
        r \in (IF dstRemote THEN {"absent", "file"} ELSE {"dir"}),
        c \in {"absent", "file"}}

AbsentFs == [k \in Keys |-> "absent"]

NoPolicy == [st |-> "none", srcSize |-> 0, dstSize |-> 0, srcMod |-> 0,
             dstMod |-> 0, out |-> "none"]

\* Copy called with its source already expanded: no command in front of it.
Called == [pc |-> "loop", argc |-> 2, srcValid |-> TRUE, dstValid |-> TRUE,
           dstHasGlob |-> FALSE, recursive |-> FALSE, isRecursive |-> FALSE,
           stat |-> "none", expand |-> "none", err |-> ""]

InitBatch ==
    /\ next = 1
    /\ copyPc = "loop"
    /\ result = <<>>
    /\ printed = 0
    /\ wg = 0
    /\ merror = <<>>
    /\ aggPc = "recv"
    /\ pending = None
    /\ pc = [i \in Objects |-> "idle"]
    /\ dst = [i \in Objects |-> <<>>]
    /\ err = [i \in Objects |-> None]
    /\ ops = [i \in Objects |-> <<>>]
    /\ seen = [i \in Objects |-> "none"]
    /\ outcome = [i \in Objects |-> "none"]

Init ==
    /\ srcRemote \in BOOLEAN
    /\ dstRemote \in BOOLEAN
    /\ srcHasGlob \in BOOLEAN
    /\ dsturl \in {<<"d">>, <<"d", "/">>}
    /\ deleteSource \in BOOLEAN
    /\ noClobber \in BOOLEAN
    /\ ifSizeDiffer \in BOOLEAN
    /\ ifSourceNewer \in BOOLEAN
    /\ parents \in BOOLEAN
    /\ objch \in [Objects -> Kinds]
    /\ fs \in InitFs
    /\ pol = NoPolicy
    /\ cmd = Called
    /\ InitBatch

---------------------------------------------------------------------------
\* Copy: the range loop over the object channel, and the task runner.

SameType == srcRemote = dstRemote

Running == Cardinality({i \in Objects : pc[i] \notin {"idle", "done"}})

\* The task's first position, by the switch of Copy.
FirstPc ==
    IF SameType THEN "copy.prepare"
    ELSE IF srcRemote THEN "download.prepare"
    ELSE "upload.open"

taskvars == <<pc, dst, err, ops, seen, outcome, fs>>
copyvars == <<next, copyPc, result, printed>>
aggvars == <<merror, aggPc, pending>>

\* An object carrying an enumeration error: printError, continue.
CopyObjectError ==
    /\ copyPc = "loop" /\ next <= MaxObjects /\ objch[next] = "err"
    /\ printed' = printed + 1
    /\ next' = next + 1
    /\ UNCHANGED <<config, copyPc, result, wg, aggvars, taskvars, pol>>

CopyObjectDirDispatched ==
    /\ copyPc = "loop" /\ next <= MaxObjects /\ objch[next] = "dir"
    /\ wg' = wg + 1
    /\ pc' = [pc EXCEPT ![next] = FirstPc]
    /\ next' = next + 1
    /\ UNCHANGED <<config, copyPc, result, printed, aggvars, dst, err, ops,
                   seen, outcome, fs, pol>>

\* A directory: continue.
CopyObjectDir ==
    /\ copyPc = "loop" /\ next <= MaxObjects /\ objch[next] = "dir"
    /\ next' = next + 1
    /\ UNCHANGED <<config, copyPc, result, printed, wg, aggvars, taskvars, pol>>

RunUnlessFailed ==
    /\ copyPc = "loop" /\ next <= MaxObjects /\ objch[next] = "file"
    /\ Running < NumWorkers
    /\ \A j \in Objects : outcome[j] # "failed"
    /\ wg' = wg + 1
    /\ pc' = [pc EXCEPT ![next] = FirstPc]
    /\ next' = next + 1
    /\ UNCHANGED <<config, copyPc, result, printed, aggvars, dst, err, ops,
                   seen, outcome, fs, pol>>

\* parallel.Run(task, waiter): wg.Add(1), acquire a worker, start the task.
Run ==
    /\ copyPc = "loop" /\ next <= MaxObjects /\ objch[next] = "file"
    /\ Running < NumWorkers
    /\ wg' = wg + 1
    /\ pc' = [pc EXCEPT ![next] = FirstPc]
    /\ next' = next + 1
    /\ UNCHANGED <<config, copyPc, result, printed, aggvars, dst, err, ops,
                   seen, outcome, fs, pol>>

\* waiter.Wait() returns once the counter is zero and closes the error
\* channel; Copy then returns merror as it finds it.
WaitAndReturn ==
    /\ copyPc = "loop" /\ next > MaxObjects
    /\ wg = 0
    /\ result' = merror
    /\ copyPc' = "done"
    /\ UNCHANGED <<config, next, printed, wg, aggvars, taskvars, pol>>

\* A task that returned an error sends it on the waiter's channel; the
\* aggregator goroutine receives it (for err := range waiter.Err()).
\* The task then ends: wg.Done(), release of the worker.
Receive(i) ==
    /\ pc[i] = "send"
    /\ aggPc = "recv"
    /\ pending' = err[i]
    /\ aggPc' = "append"
    /\ pc' = [pc EXCEPT ![i] = "done"]
    /\ wg' = wg - 1
    /\ UNCHANGED <<config, copyvars, merror, dst, err, ops, seen, outcome, fs, pol>>

\* merror = multierror.Append(merror, err)
AppendError ==
    /\ aggPc = "append"
    /\ merror' = Append(merror, pending)
    /\ pending' = None
    /\ aggPc' = "recv"
    /\ UNCHANGED <<config, copyvars, wg, taskvars, pol>>


---------------------------------------------------------------------------
\* Tasks: what the three closures of Copy and the executors do, one step per
\* storage or file call.

\* A write to p (Copy, Put) can succeed unless p is a directory or lies
\* below a file; a local copy creates the missing directories.
CanWrite(f, p) ==
    \/ dstRemote
    \/ IF Key(p) = Root THEN f[Root] # "dir" ELSE f[Root] # "file"

Written(f, p) ==
    IF dstRemote \/ Key(p) = Root THEN [f EXCEPT ![Key(p)] = "file"]
    ELSE [f EXCEPT ![Key(p)] = "file", ![Root] = "dir"]

\* The task returns e: it goes on to send e to the aggregator.
TaskFails(i, e) ==
    /\ err' = [err EXCEPT ![i] = e]
    /\ pc' = [pc EXCEPT ![i] = "send"]
    /\ outcome' = [outcome EXCEPT ![i] = "failed"]
    /\ wg' = wg

\* The task returns nil and ends: wg.Done(), release of the worker.
TaskSucceeds(i, o) ==
    /\ err' = err
    /\ pc' = [pc EXCEPT ![i] = "done"]
    /\ outcome' = [outcome EXCEPT ![i] = o]
    /\ wg' = wg - 1

TaskGoes(i, p) ==
    /\ err' = err
    /\ pc' = [pc EXCEPT ![i] = p]
    /\ outcome' = outcome
    /\ wg' = wg

Issue(i, calls) == ops' = [ops EXCEPT ![i] = ops[i] \o calls]

Info == Call("Info", TRUE)

\* The overwrite policy applied to the destination task i resolved: the Stat
\* either fails (se) or reports what is there, with some size and time.
PolicyOutcomes(i, se) ==
    {ShouldOverrideFunc(IF se THEN "error" ELSE StatOf(fs, dst[i]), ss, ds, sm, dm) :
        ss \in Sizes, ds \in Sizes, sm \in Times, dm \in Times}

\* err = shouldOverride(dst): a warning is logged and the executor returns nil,
\* another error is returned (the closure wraps it with destination d).
Policy(i, se, d, nextPc) ==
    \E out \in PolicyOutcomes(i, se) :
        /\ IF isWarning(out) THEN TaskSucceeds(i, "skipped")
           ELSE IF out = "error" THEN TaskFails(i, Wrap(i, d, "Stat"))
           ELSE TaskGoes(i, nextPc)
        /\ UNCHANGED <<config, copyvars, aggvars, dst, ops, seen, fs, pol>>

\* if deleteSource { Delete(src) }; log.Info(msg); return nil
DeleteSourceAndLog(i, d) ==
    IF deleteSource
    THEN \E ok \in BOOLEAN :
            IF ok
            THEN Issue(i, <<Call("DeleteSrc", TRUE), Info>>) /\ TaskSucceeds(i, "ok")
            ELSE Issue(i, <<Call("DeleteSrc", FALSE)>>)
                 /\ TaskFails(i, Wrap(i, d, "Delete"))
    ELSE Issue(i, <<Info>>) /\ TaskSucceeds(i, "ok")

\* local->local or remote->remote: prepareCopyDestination
CopyPrepare(i) ==
    /\ pc[i] = "copy.prepare"
    /\ \E nc \in BOOLEAN, se \in BOOLEAN :
        LET r == PrepareCopyDestination(i, fs, nc, se) IN
        /\ seen' = [seen EXCEPT ![i] = r.st]
        /\ IF r.ok
           THEN dst' = [dst EXCEPT ![i] = r.dst] /\ TaskGoes(i, "copy.policy")
           ELSE dst' = dst /\ TaskFails(i, Bare(r.cause))
    /\ UNCHANGED <<config, copyvars, aggvars, ops, fs, pol>>

\* doCopy: NewClient(src), shouldOverride(dst)
DoCopyPolicy(i) ==
    /\ pc[i] = "copy.policy"
    /\ \/ /\ TaskFails(i, Wrap(i, dst[i], "NewClient"))
          /\ UNCHANGED <<config, copyvars, aggvars, dst, ops, seen, fs, pol>>
       \/ \E se \in BOOLEAN : Policy(i, se, dst[i], "copy.copy")

\* doCopy: srcClient.Copy(src, dst, metadata)
DoCopyCopy(i) ==
    /\ pc[i] = "copy.copy"
    /\ \E ok \in BOOLEAN :
        /\ ok => CanWrite(fs, dst[i])
        /\ Issue(i, <<Call("Copy", ok)>>)
        /\ IF ok
           THEN fs' = Written(fs, dst[i]) /\ TaskGoes(i, "copy.finish")
           ELSE fs' = fs /\ TaskFails(i, Wrap(i, dst[i], "Copy"))
    /\ UNCHANGED <<config, copyvars, aggvars, dst, seen, pol>>

\* doCopy: the source's deletion and the completion record
DoCopyFinish(i) ==
    /\ pc[i] = "copy.finish"
    /\ DeleteSourceAndLog(i, dst[i])
    /\ UNCHANGED <<config, copyvars, aggvars, dst, seen, fs, pol>>

\* remote->local: prepareDownloadDestination
DownloadPrepare(i) ==
    /\ pc[i] = "download.prepare"
    /\ \E nc \in BOOLEAN, se \in BOOLEAN :
        LET r == PrepareDownloadDestination(i, fs, nc, se) IN
        /\ seen' = [seen EXCEPT ![i] = r.st]
        /\ fs' = r.fs
        /\ IF r.ok
           THEN dst' = [dst EXCEPT ![i] = r.dst] /\ TaskGoes(i, "download.policy")
           ELSE dst' = dst /\ TaskFails(i, Bare(r.cause))
    /\ UNCHANGED <<config, copyvars, aggvars, ops, pol>>

DoDownloadPolicyAfterCreate(i) ==
    /\ pc[i] = "download.policy"
    /\ \E se \in BOOLEAN : \E out \in PolicyOutcomes(i, se) :
        /\ Issue(i, <<Call("Create", TRUE)>>)
        /\ fs' = [fs EXCEPT ![Key(dst[i])] = "file"]
        /\ IF isWarning(out) THEN TaskSucceeds(i, "skipped")
           ELSE IF out = "error" THEN TaskFails(i, Wrap(i, dst[i], "Stat"))
           ELSE TaskGoes(i, "download.get")
    /\ UNCHANGED <<config, copyvars, aggvars, dst, seen, pol>>

\* doDownload: NewClient(src), NewClient(dst), shouldOverride(dst)
DoDownloadPolicy(i) ==
    /\ pc[i] = "download.policy"
    /\ \/ /\ TaskFails(i, Wrap(i, dst[i], "NewClient"))
          /\ UNCHANGED <<config, copyvars, aggvars, dst, ops, seen, fs, pol>>
       \/ \E se \in BOOLEAN : Policy(i, se, dst[i], "download.create")

\* doDownload: os.Create(dst.Absolute())
DoDownloadCreate(i) ==
    /\ pc[i] = "download.create"
    /\ \E ok \in BOOLEAN :
        /\ ok => CanCreate(fs, dst[i])
        /\ Issue(i, <<Call("Create", ok)>>)
        /\ IF ok
           THEN fs' = [fs EXCEPT ![Key(dst[i])] = "file"]
                /\ TaskGoes(i, "download.get")
           ELSE fs' = fs /\ TaskFails(i, Wrap(i, dst[i], "Create"))
    /\ UNCHANGED <<config, copyvars, aggvars, dst, seen, pol>>

\* doDownload: size, err := srcClient.Get(ctx, src, f)
DoDownloadGet(i) ==
    /\ pc[i] = "download.get"
    /\ \E ok \in BOOLEAN : Issue(i, <<Call("Get", ok)>>)
    /\ TaskGoes(i, "download.finish")
    /\ UNCHANGED <<config, copyvars, aggvars, dst, seen, fs, pol>>

DoDownloadFinishMovesAnyway(i) ==
    /\ pc[i] = "download.finish"
    /\ LET getOk == ops[i][Len(ops[i])].ok IN
       IF ~getOk /\ ~deleteSource
       THEN \E ok \in BOOLEAN :
               IF ok
               THEN /\ Issue(i, <<Call("DeleteDst", TRUE), Info>>)
                    /\ fs' = [fs EXCEPT ![Key(dst[i])] = "absent"]
                    /\ TaskSucceeds(i, "ok")
               ELSE /\ Issue(i, <<Call("DeleteDst", FALSE)>>)
                    /\ fs' = fs
                    /\ TaskFails(i, Wrap(i, dst[i], "Delete"))
       ELSE fs' = fs /\ DeleteSourceAndLog(i, dst[i])
    /\ UNCHANGED <<config, copyvars, aggvars, dst, seen, pol>>

DoDownloadFinishKeepsPartial(i) ==
    /\ pc[i] = "download.finish"
    /\ LET getOk == ops[i][Len(ops[i])].ok IN
       IF ~getOk
       THEN /\ ops' = ops /\ fs' = fs
            /\ TaskFails(i, Wrap(i, dst[i], "Get"))
       ELSE fs' = fs /\ DeleteSourceAndLog(i, dst[i])
    /\ UNCHANGED <<config, copyvars, aggvars, dst, seen, pol>>

\* doDownload, after Get:
\*   if err != nil { err = dstClient.Delete(ctx, dst) }
\*   else if deleteSource { err = srcClient.Delete(ctx, src) }
\*   if err != nil { return err }
\*   log.Info(msg); return nil
DoDownloadFinish(i) ==
    /\ pc[i] = "download.finish"
    /\ LET getOk == ops[i][Len(ops[i])].ok IN
       IF ~getOk
       THEN \E ok \in BOOLEAN :
               IF ok
               THEN /\ Issue(i, <<Call("DeleteDst", TRUE), Info>>)
                    /\ fs' = [fs EXCEPT ![Key(dst[i])] = "absent"]
                    /\ TaskSucceeds(i, "ok")
               ELSE /\ Issue(i, <<Call("DeleteDst", FALSE)>>)
                    /\ fs' = fs
                    /\ TaskFails(i, Wrap(i, dst[i], "Delete"))
       ELSE fs' = fs /\ DeleteSourceAndLog(i, dst[i])
    /\ UNCHANGED <<config, copyvars, aggvars, dst, seen, pol>>

\* local->remote, doUpload: os.Open(src.Absolute()); dst = dst.Join(objname)
DoUploadOpen(i) ==
    /\ pc[i] = "upload.open"
    /\ seen' = [seen EXCEPT ![i] = StatOf(fs, dsturl)]
    /\ \E ok \in BOOLEAN :
        IF ok
        THEN dst' = [dst EXCEPT ![i] = UploadDestination(i)]
             /\ TaskGoes(i, "upload.policy")
        ELSE dst' = dst /\ TaskFails(i, Wrap(i, dsturl, "Open"))
    /\ UNCHANGED <<config, copyvars, aggvars, ops, fs, pol>>

\* doUpload: shouldOverride(dst)
DoUploadPolicy(i) ==
    /\ pc[i] = "upload.policy"
    /\ \E se \in BOOLEAN : Policy(i, se, dsturl, "upload.put")

\* doUpload: NewClient(dst), guessContentType, dstClient.Put(f, dst, metadata)
DoUploadPut(i) ==
    /\ pc[i] = "upload.put"
    /\ \/ /\ TaskFails(i, Wrap(i, dsturl, "NewClient"))
          /\ UNCHANGED <<ops, fs>>
       \/ \E ok \in BOOLEAN :
            /\ Issue(i, <<Call("Put", ok)>>)
            /\ IF ok
               THEN fs' = Written(fs, dst[i]) /\ TaskGoes(i, "upload.finish")
               ELSE fs' = fs /\ TaskFails(i, Wrap(i, dsturl, "Put"))
    /\ UNCHANGED <<config, copyvars, aggvars, dst, seen, pol>>

\* doUpload, after Put: NewClient(src), Stat(src), the source's deletion and
\* the completion record.  Stat's error is dropped (obj, _ := ...) and only
\* the size it reports is used, in the record: the step takes the object as
\* returned.
DoUploadFinish(i) ==
    /\ pc[i] = "upload.finish"
    /\ \/ TaskFails(i, Wrap(i, dsturl, "NewClient")) /\ ops' = ops
       \/ DeleteSourceAndLog(i, dsturl)
    /\ UNCHANGED <<config, copyvars, aggvars, dst, seen, fs, pol>>

Task(i) ==
    \/ CopyPrepare(i) \/ DoCopyPolicy(i) \/ DoCopyCopy(i) \/ DoCopyFinish(i)
    \/ DownloadPrepare(i) \/ DoDownloadPolicy(i) \/ DoDownloadCreate(i)
    \/ DoDownloadGet(i) \/ DoDownloadFinish(i)
    \/ DoUploadOpen(i) \/ DoUploadPolicy(i) \/ DoUploadPut(i) \/ DoUploadFinish(i)

Next ==
    \/ CopyObjectError
    \/ CopyObjectDir
    \/ Run
    \/ WaitAndReturn
    \/ AppendError
    \/ \E i \in Objects : Receive(i)
    \/ \E i \in Objects : CopyPrepare(i)
    \/ \E i \in Objects : DoCopyPolicy(i)
    \/ \E i \in Objects : DoCopyCopy(i)
    \/ \E i \in Objects : DoCopyFinish(i)
    \/ \E i \in Objects : DownloadPrepare(i)
    \/ \E i \in Objects : DoDownloadPolicy(i)
    \/ \E i \in Objects : DoDownloadCreate(i)
    \/ \E i \in Objects : DoDownloadGet(i)
    \/ \E i \in Objects : DoDownloadFinish(i)
    \/ \E i \in Objects : DoUploadOpen(i)
    \/ \E i \in Objects : DoUploadPolicy(i)
    \/ \E i \in Objects : DoUploadPut(i)
    \/ \E i \in Objects : DoUploadFinish(i)

Spec == Init /\ [][Next]_vars


\* Fairness: every goroutine that can take a step eventually takes one, and
\* every storage call returns.  The batch is finite, so weak fairness of the
\* next-state relation is enough.  The batches are those of Init whose
\* destination argument is "d/" and whose flags are no-clobber and
\* deleteSource alone: the other flags select a destination's name or a
\* check of the policy, not the steps a task can take.
FairInit ==
    /\ Init
    /\ dsturl = <<"d", "/">>
    /\ ~parents /\ ~ifSizeDiffer /\ ~ifSourceNewer

FairSpec == FairInit /\ [][Next]_vars /\ WF_vars(Next)

---------------------------------------------------------------------------
\* The overwrite policy on its own: one evaluation of the closure on every
\* combination of flags, destination state, sizes and times.

PolicyInit ==
    /\ srcRemote = TRUE
    /\ dstRemote = FALSE
    /\ srcHasGlob = FALSE
    /\ dsturl = <<"d">>
    /\ deleteSource = FALSE
    /\ noClobber \in BOOLEAN
    /\ ifSizeDiffer \in BOOLEAN
    /\ ifSourceNewer \in BOOLEAN
    /\ parents = FALSE
    /\ objch = [i \in Objects |-> "file"]
    /\ fs = AbsentFs
    /\ pol \in [st : {"notfound", "file", "dir", "error"}, srcSize : Sizes,
                dstSize : Sizes, srcMod : Times, dstMod : Times, out : {"none"}]
    /\ cmd = Called
    /\ InitBatch

EvalPolicy ==
    /\ pol.out = "none"
    /\ pol' = [pol EXCEPT !.out = ShouldOverrideFunc(pol.st, pol.srcSize,
                                      pol.dstSize, pol.srcMod, pol.dstMod)]
    /\ UNCHANGED <<config, copyvars, wg, aggvars, taskvars>>

PolicyNext == EvalPolicy

PolicySpec == PolicyInit /\ [][PolicyNext]_vars

---------------------------------------------------------------------------
\* The cp command from its arguments on: Before, Action, the head of Copy,
\* expandSource, and then the batch.

\* What the channel of expandSource can deliver: objects, then its close.
Streams ==
    {s \in [Objects -> Kinds \cup {"closed"}] :
        \A i \in Objects : \A j \in Objects :
            (s[i] = "closed" /\ j > i) => s[j] = "closed"}

\* ch <- &storage.Object{URL: src}; close(ch)
Single == [i \in Objects |-> IF i = 1 THEN "file" ELSE "closed"]

NoStream == [i \in Objects |-> "closed"]

CommandInit ==
    /\ srcRemote \in BOOLEAN
    /\ dstRemote \in BOOLEAN
    /\ srcHasGlob \in BOOLEAN
    /\ dsturl \in {<<"d">>, <<"d", "/">>}
    /\ deleteSource = FALSE
    /\ noClobber = FALSE
    /\ ifSizeDiffer = FALSE
    /\ ifSourceNewer = FALSE
    /\ parents = FALSE
    /\ objch = NoStream
    /\ fs \in InitFs
    /\ pol = NoPolicy
    /\ cmd \in [pc : {"before"}, argc : 0..MaxArgs, srcValid : BOOLEAN,
                 dstValid : BOOLEAN, dstHasGlob : BOOLEAN, recursive : BOOLEAN,
                 isRecursive : {FALSE}, stat : {"none"}, expand : {"none"},
                 err : {""}]
    /\ next = 1
    /\ copyPc = "idle"
    /\ result = <<>>
    /\ printed = 0
    /\ wg = 0
    /\ merror = <<>>
    /\ aggPc = "recv"
    /\ pending = None
    /\ pc = [i \in Objects |-> "idle"]
    /\ dst = [i \in Objects |-> <<>>]
    /\ err = [i \in Objects |-> None]
    /\ ops = [i \in Objects |-> <<>>]
    /\ seen = [i \in Objects |-> "none"]
    /\ outcome = [i \in Objects |-> "none"]

\* Before returned e: the command ends, Action is not called.
Aborts(e) ==
    /\ cmd' = [cmd EXCEPT !.pc = "aborted", !.err = e]
    /\ UNCHANGED <<flags, objch, copyvars, wg, aggvars, taskvars, pol>>

BeforeWithoutGlobCheck ==
    /\ cmd.pc = "before"
    /\ IF cmd.argc # 2 THEN Aborts("ArgCount")
       ELSE IF ~cmd.dstValid THEN Aborts("ParseDst")
       ELSE /\ cmd' = [cmd EXCEPT !.pc = "action"]
            /\ UNCHANGED <<flags, objch, copyvars, wg, aggvars, taskvars, pol>>

\* CopyCommand.Before
Before ==
    /\ cmd.pc = "before"
    /\ IF cmd.argc # 2 THEN Aborts("ArgCount")
       ELSE IF ~cmd.dstValid THEN Aborts("ParseDst")
       ELSE IF cmd.dstHasGlob THEN Aborts("GlobDst")
       ELSE /\ cmd' = [cmd EXCEPT !.pc = "action"]
            /\ UNCHANGED <<flags, objch, copyvars, wg, aggvars, taskvars, pol>>

\* CopyCommand.Action: return Copy(..., false /* deleteSource */, ...)
Action ==
    /\ cmd.pc = "action"
    /\ ~deleteSource
    /\ cmd' = [cmd EXCEPT !.pc = "copy"]
    /\ UNCHANGED <<flags, objch, copyvars, wg, aggvars, taskvars, pol>>

\* Copy returns e before its loop.
Returns(e) ==
    /\ cmd' = [cmd EXCEPT !.pc = "returned", !.err = e]
    /\ result' = <<Bare(e)>>
    /\ copyPc' = "done"
    /\ UNCHANGED <<flags, objch, next, printed, wg, aggvars, taskvars, pol>>

CopyStartRecursiveToRemote ==
    /\ cmd.pc = "copy"
    /\ IF ~cmd.srcValid THEN Returns("ParseSrc")
       ELSE IF ~cmd.dstValid THEN Returns("ParseDst")
       ELSE /\ cmd' = [cmd EXCEPT !.pc = "expand",
                                  !.isRecursive = cmd.recursive \/ dstRemote]
            /\ UNCHANGED <<flags, objch, copyvars, wg, aggvars, taskvars, pol>>

\* Copy: objurl.New of both arguments;
\*   recursive = recursive || (!srcurl.IsRemote() && dsturl.IsRemote())
CopyStart ==
    /\ cmd.pc = "copy"
    /\ IF ~cmd.srcValid THEN Returns("ParseSrc")
       ELSE IF ~cmd.dstValid THEN Returns("ParseDst")
       ELSE /\ cmd' = [cmd EXCEPT !.pc = "expand",
                                  !.isRecursive = cmd.recursive
                                                  \/ (~srcRemote /\ dstRemote)]
            /\ UNCHANGED <<flags, objch, copyvars, wg, aggvars, taskvars, pol>>

\* expandSource returned the channel ch: Copy enters its loop.
Expands(how, st, ch) ==
    /\ cmd' = [cmd EXCEPT !.pc = "loop", !.stat = st, !.expand = how]
    /\ objch' = ch
    /\ copyPc' = "loop"
    /\ UNCHANGED <<flags, next, result, printed, wg, aggvars, taskvars, pol>>

ExpandSourceWithoutStat ==
    /\ cmd.pc = "expand"
    /\ \E nc \in BOOLEAN :
          IF ~nc THEN Returns("NewClient")
          ELSE IF srcHasGlob
               THEN \E ch \in Streams : Expands("list", "none", ch)
               ELSE Expands("single", "none", Single)

\* objch, err := expandSource(ctx, srcurl, recursive); if err != nil { return err }
\* nc: whether NewClient succeeds; st: what Stat answers for a local source
\* without glob.
ExpandSource ==
    /\ cmd.pc = "expand"
    /\ \E nc \in BOOLEAN, st \in {"error", "file", "dir"} :
          LET statted == ~srcHasGlob /\ ~srcRemote
              isDir == statted /\ st = "dir"
          IN  IF ~nc THEN Returns("NewClient")
              ELSE IF statted /\ st = "error"
                   THEN /\ cmd' = [cmd EXCEPT !.pc = "returned", !.err = "Stat",
                                              !.stat = st]
                        /\ result' = <<Bare("Stat")>>
                        /\ copyPc' = "done"
                        /\ UNCHANGED <<flags, objch, next, printed, wg, aggvars,
                                       taskvars, pol>>
              ELSE IF srcHasGlob \/ isDir
                   THEN \E ch \in Streams :
                           Expands("list", IF statted THEN st ELSE "none", ch)
                   ELSE Expands("single", IF statted THEN st ELSE "none", Single)

\* for object := range objch: the channel is closed, the loop ends.
CopyChannelClosed ==
    /\ copyPc = "loop" /\ next <= MaxObjects /\ objch[next] = "closed"
    /\ next' = MaxObjects + 1
    /\ UNCHANGED <<config, copyPc, result, printed, wg, aggvars, taskvars, pol>>

CommandNext ==
    \/ Before
    \/ Action
    \/ CopyStart
    \/ ExpandSource
    \/ CopyChannelClosed
    \/ Next

CommandSpec == CommandInit /\ [][CommandNext]_vars


---------------------------------------------------------------------------
\* Properties.

Finished(i) == pc[i] \in {"send", "done"}

Issued(i, c) == \E k \in 1..Len(ops[i]) : ops[i][k].call = c

IssuedWith(i, c, ok) == \E k \in 1..Len(ops[i]) : ops[i][k] = Call(c, ok)

TransferCalls == {"Copy", "Put", "Get"}

TransferOk(i) == \E c \in TransferCalls : IssuedWith(i, c, TRUE)

TransferFailed(i) == \E c \in TransferCalls : IssuedWith(i, c, FALSE)

FailedTasks == {i \in Objects : outcome[i] = "failed"}

\* C1: Copy returns only after every submitted task has completed, and what
\* it returns holds one entry for each task that returned an error: it is
\* nil exactly when no task returned one.
C1_ReturnsEveryTaskError ==
    copyPc = "done" =>
        /\ \A i \in Objects : objch[i] = "file" => pc[i] = "done"
        /\ Len(result) = Cardinality(FailedTasks)
        /\ \A i \in FailedTasks : \E k \in 1..Len(result) : result[k] = err[i]
        /\ (result = <<>>) <=> (FailedTasks = {})

\* C2: in a batch where the transfer call of exactly one object fails and
\* nothing else goes wrong, the batch result holds exactly one error, the
\* failing object's, wrapped with operation, source and destination; the
\* other objects are transferred and reported as successes.  (Stated for the
\* batches whose result lost nothing to the return of C1.)
C2_OneFailureOneWrappedError ==
    \A i \in Objects :
        ( /\ copyPc = "done" /\ aggPc = "recv" /\ result = merror
          /\ objch[i] = "file" /\ TransferFailed(i)
          /\ \A j \in Objects \ {i} :
                objch[j] = "file" => TransferOk(j) /\ outcome[j] = "ok" )
        => /\ Len(result) = 1
           /\ result[1].wrapped /\ result[1].op = Op /\ result[1].src = i
           /\ result[1].dst \in {dst[i], dsturl}
           /\ result[1].cause \in TransferCalls
           /\ outcome[i] = "failed"
           /\ ~Issued(i, "Info")

\* C3: a download whose Get failed never deletes the source, removes the
\* destination file, returns an error and emits no completion record.
C3_FailedDownloadPropagates ==
    \A i \in Objects :
        (Finished(i) /\ IssuedWith(i, "Get", FALSE)) =>
            /\ ~Issued(i, "DeleteSrc")
            /\ Issued(i, "DeleteDst")
            /\ outcome[i] = "failed" /\ err[i] # None
            /\ ~Issued(i, "Info")

\* Delete(source) was issued right after the transfer call returned success.
DeletedAfterTransfer(i) ==
    \E k \in 2..Len(ops[i]) :
        /\ ops[i][k].call = "DeleteSrc"
        /\ ops[i][k - 1].call \in TransferCalls /\ ops[i][k - 1].ok

\* C4 as claimed: with deleteSource, Delete(source) is issued if and only if
\* the transfer call returned successfully, and after it; without
\* deleteSource it is never issued.
C4_DeleteIffTransferred ==
    \A i \in Objects :
        /\ Issued(i, "DeleteSrc") => deleteSource /\ DeletedAfterTransfer(i)
        /\ (Finished(i) /\ deleteSource /\ TransferOk(i)) => Issued(i, "DeleteSrc")

\* C4 as amended: Delete(source) is issued only with deleteSource and only
\* right after the transfer call returned successfully (so never after a
\* skip, a failed resolution or a failed transfer); and a finished task whose
\* transfer succeeded under deleteSource has issued it, except an upload that
\* failed to obtain the source's client after the Put.
C4_DeleteOnlyAfterTransfer ==
    \A i \in Objects :
        /\ Issued(i, "DeleteSrc") => deleteSource /\ DeletedAfterTransfer(i)
        /\ (outcome[i] = "skipped" \/ TransferFailed(i) \/ ~TransferOk(i))
              => ~Issued(i, "DeleteSrc")
        /\ (Finished(i) /\ deleteSource /\ TransferOk(i) /\ ~Issued(i, "DeleteSrc"))
              => /\ ~srcRemote /\ dstRemote
                 /\ err[i] = Wrap(i, dsturl, "NewClient")

C4_Witness ==
    \E i \in Objects :
        /\ deleteSource /\ pc[i] = "done" /\ DeletedAfterTransfer(i)
        /\ IssuedWith(i, "DeleteSrc", TRUE)


\* C5: a failure of one task never cancels or prevents a sibling: every
\* error-free file object gets its task submitted, and every submitted task
\* runs to completion.
C5_EveryTaskCompletes ==
    \A i \in Objects : (objch[i] = "file") => <>(pc[i] = "done")

C5_Witness ==
    /\ outcome[1] = "failed" /\ pc[1] = "done"
    /\ outcome[2] = "ok" /\ pc[2] = "done"
    /\ copyPc = "done"

\* C6: a task the overwrite policy skipped issued no file or storage call
\* (no Create, Get, Put, Copy, Delete), emitted no completion record and
\* returned nil; and with no overwrite flag set no task is ever skipped.
C6_SkipDoesNothing ==
    \A i \in Objects :
        /\ outcome[i] = "skipped" =>
              ops[i] = <<>> /\ err[i] = None /\ pc[i] = "done"
        /\ (~noClobber /\ ~ifSizeDiffer /\ ~ifSourceNewer) =>
              outcome[i] # "skipped"

C6_Witness ==
    \E i \in Objects :
        /\ noClobber /\ outcome[i] = "skipped" /\ pc[i] = "done"
        /\ fs[Key(dst[i])] = "file"

\* C7: the policy's outcome is skip exactly when the destination exists and
\* an enabled check matches; an absent destination proceeds whatever the
\* flags; a stat error is a hard error.
C7_PolicyDecision ==
    pol.out # "none" =>
        LET exists == pol.st \in {"file", "dir"} IN
        /\ (pol.out = "skip") <=>
              /\ exists
              /\ \/ noClobber
                 \/ ifSizeDiffer /\ pol.dstSize = pol.srcSize
                 \/ ifSourceNewer /\ ~(pol.dstMod < pol.srcMod)
        /\ pol.st = "notfound" => pol.out = "proceed"
        /\ (pol.out = "error") <=> (pol.st = "error")

C7_Witness ==
    /\ pol.out = "skip"
    /\ ~noClobber /\ ifSizeDiffer /\ ifSourceNewer
    /\ pol.dstSize # pol.srcSize /\ pol.dstMod = pol.srcMod

\* C8: with a glob source and a destination found to be a non-directory,
\* same-type and remote-to-local resolution fail with the
\* destination-must-be-directory error, and no transfer is started.
C8_GlobOntoFileFails ==
    \A i \in Objects :
        ( /\ pc[i] \notin {"idle", "copy.prepare", "download.prepare"}
          /\ SameType \/ srcRemote
          /\ srcHasGlob /\ seen[i] = "file" )
        => err[i] = Bare("NotDirectory") /\ ops[i] = <<>>

\* C9: for a remote destination ending in a separator the resolved
\* destination is the destination path followed by the object name (base
\* name, or relative path with parents), with or without a glob source, in
\* remote-to-remote copy and in upload.
C9_RemotePrefixJoin ==
    \A i \in Objects :
        ( /\ dstRemote /\ HasSuffixSlash(dsturl)
          /\ pc[i] \notin {"idle", "copy.prepare", "upload.open"}
          /\ err[i].cause # "Open" )
        => dst[i] = dsturl \o (IF parents THEN Relative(i) ELSE Base(i))

C9_Witness ==
    \E i \in Objects :
        /\ dstRemote /\ srcRemote /\ HasSuffixSlash(dsturl) /\ ~srcHasGlob
        /\ ~parents /\ IssuedWith(i, "Copy", TRUE)
        /\ dst[i] = <<"d", "/">> \o Base(i)

\* The destination root joined once with the object's relative path.
UnderRoot(i) == <<"d", "/">> \o Relative(i)

\* C10 as claimed: with parents, every successful resolution yields the
\* destination root joined with the relative path exactly once.
C10_ParentsAlwaysJoined ==
    \A i \in Objects : (parents /\ dst[i] # <<>>) => dst[i] = UnderRoot(i)

\* C10 as amended: with parents, download and upload always resolve to the
\* root joined once with the relative path; same-type resolution does so
\* when the remote destination ends with a separator or the local
\* destination is resolved for a glob source, and otherwise uses the
\* destination as given.
C10_ParentsJoinedWhereJoined ==
    \A i \in Objects :
        (parents /\ dst[i] # <<>>) =>
            IF \/ ~SameType
               \/ dstRemote /\ HasSuffixSlash(dsturl)
               \/ ~dstRemote /\ srcHasGlob
            THEN dst[i] = UnderRoot(i)
            ELSE dst[i] = dsturl

C10_Witness ==
    /\ parents /\ srcRemote /\ ~dstRemote /\ HasSuffixSlash(dsturl)
    /\ seen[1] = "notfound"
    /\ dst[1] = <<"d", "/", "a", "/", "b.txt">>
    /\ IssuedWith(1, "Get", TRUE)

\* The number of completion records (log.Info) a task emitted.
Records(i) == Cardinality({k \in 1..Len(ops[i]) : ops[i][k].call = "Info"})

\* C11: a completion record is emitted exactly once for each object whose
\* transfer succeeded and was not skipped, and never for an object that was
\* skipped, whose resolution failed, or whose transfer or source deletion
\* failed: a task's record count is 1 when it finished successfully after a
\* successful transfer call, and 0 otherwise.
C11_RecordIffTransferred ==
    \A i \in Objects :
        Records(i) = IF pc[i] = "done" /\ outcome[i] = "ok" /\ TransferOk(i)
                     THEN 1 ELSE 0

\* The objects the loop of Copy has taken from the stream so far.
Taken == {i \in Objects : i < next}

\* The tasks handed to parallel.Run so far.
Submitted == {i \in Objects : pc[i] # "idle"}

\* C12: exactly one task is dispatched per error-free file object of the
\* stream; an object carrying an enumeration error is reported and dropped,
\* a directory is dropped, neither reaches a resolver or an executor, and an
\* enumeration error is never added to the batch aggregate.
C12_OneTaskPerFileObject ==
    /\ Submitted = {i \in Taken : objch[i] = "file"}
    /\ wg = Cardinality({i \in Submitted : pc[i] # "done"})
    /\ \A i \in Objects :
          objch[i] # "file" =>
              /\ pc[i] = "idle" /\ dst[i] = <<>> /\ ops[i] = <<>>
              /\ seen[i] = "none" /\ err[i] = None /\ outcome[i] = "none"
    /\ printed = Cardinality({i \in Taken : objch[i] = "err"})
    /\ Len(merror) + (IF aggPc = "append" THEN 1 ELSE 0)
          <= Cardinality(FailedTasks)
    /\ \A k \in 1..Len(merror) : \E i \in FailedTasks : merror[k] = err[i]
    /\ copyPc = "done" =>
          Cardinality(Submitted) = Cardinality({i \in Objects : objch[i] = "file"})

C12_Witness ==
    /\ copyPc = "done" /\ printed = 1
    /\ \E i, k \in Objects :
          /\ objch[i] = "err" /\ objch[k] = "file"
          /\ pc[k] = "done" /\ outcome[k] = "failed" /\ Len(merror) = 1

\* A task of a download without parents whose destination was resolved.
DownloadResolved(i) ==
    srcRemote /\ ~dstRemote /\ ~parents /\ dst[i] # <<>>

C17_LocalCopyResolution ==
    \A i \in Objects :
        (~srcRemote /\ ~dstRemote /\ pc[i] \notin {"idle", "copy.prepare"}) =>
            /\ (~srcHasGlob /\ seen[i] \in {"notfound", "file", "dir"}) =>
                  dst[i] = dsturl /\ err[i] # Bare("NotDirectory")
            /\ (srcHasGlob /\ seen[i] \in {"notfound", "dir"}) =>
                  dst[i] = Join(dsturl, objname(i))
            /\ seen[i] = "error" =>
                  /\ err[i] = Bare("Stat") /\ dst[i] = <<>> /\ ops[i] = <<>>
                  /\ outcome[i] = "failed"

C17_Witness ==
    /\ ~srcRemote /\ ~dstRemote /\ ~srcHasGlob /\ ~parents
    /\ seen[1] = "dir" /\ seen[2] = "dir"
    /\ dst[1] = dsturl /\ dst[2] = dsturl
    /\ pc[1] = "done" /\ pc[2] = "done"

\* C20: an upload always resolves its destination as the destination joined
\* with objname (base name, or relative path with parents), also when the
\* remote destination does not end with a separator and the source is a
\* single file without glob; it never uses the destination as given and
\* never fails with the destination-must-be-directory error.
C20_UploadAlwaysJoins ==
    \A i \in Objects :
        (~srcRemote /\ dstRemote) =>
            /\ dst[i] # <<>> =>
                  /\ dst[i] = <<"d", "/">> \o (IF parents THEN Relative(i) ELSE Base(i))
                  /\ dst[i] # dsturl
            /\ (Issued(i, "Put") \/ outcome[i] = "skipped") => dst[i] # <<>>
            /\ err[i].cause # "NotDirectory"

C20_Witness ==
    /\ ~srcRemote /\ dstRemote /\ ~srcHasGlob /\ ~parents
    /\ dsturl = <<"d">> /\ fs[Root] = "file"
    /\ objch[1] = "file" /\ objch[2] # "file"
    /\ IssuedWith(1, "Put", TRUE) /\ dst[1] = <<"d", "/", "b.txt">>
    /\ pc[1] = "done" /\ outcome[1] = "ok"

WriteCalls == {"Copy", "Put", "Create"}

\* Task i has written its destination.
Wrote(i) == \E c \in WriteCalls : IssuedWith(i, c, TRUE)

\* This step is task i's successful write of its destination.
WriteStep(i) ==
    \E c \in WriteCalls : ops'[i] = Append(ops[i], Call(c, TRUE))

\* This step is task i's policy check letting the transfer proceed.
PolicyPassStep(i) ==
    /\ pc[i] \in {"copy.policy", "download.policy", "upload.policy"}
    /\ pc'[i] \in {"copy.copy", "download.create", "upload.put"}

\* C18 as claimed: with no-clobber no existing destination object is ever
\* overwritten within a batch, under every interleaving: no task writes a
\* destination that exists at the moment of the write.
C18_NoClobberNeverOverwrites ==
    [][noClobber =>
          \A i \in Objects : WriteStep(i) => fs[Key(dst[i])] # "file"]_vars

\* C18 as amended: with no-clobber a task proceeds to its write only if its
\* own check found the destination absent, so a destination that exists
\* when it is checked is never written; check and write are separate steps,
\* and a destination is overwritten only where a sibling resolved to the
\* same destination wrote it between the two.
C18_NoClobberCheckedAbsent ==
    [][noClobber =>
          \A i \in Objects :
              /\ PolicyPassStep(i) => StatOf(fs, dst[i]) = "notfound"
              /\ (WriteStep(i) /\ fs[Key(dst[i])] = "file") =>
                    \E j \in Objects \ {i} :
                        Key(dst[j]) = Key(dst[i]) /\ dst[j] # <<>> /\ Wrote(j)]_vars

C18_Witness ==
    /\ noClobber /\ ~parents
    /\ dst[1] = dst[2] /\ dst[1] # <<>>
    /\ Wrote(1) /\ pc[1] = "done" /\ outcome[1] = "ok"
    /\ outcome[2] = "skipped" /\ pc[2] = "done"

\* This step is the end of task i's download after its Get failed.
FailedGetEnds(i) ==
    /\ pc[i] = "download.finish" /\ pc'[i] # "download.finish"
    /\ IssuedWith(i, "Get", FALSE)

\* The destination file is created, and so truncated, before the Get.
CreateBeforeGet ==
    \A i \in Objects :
        Issued(i, "Get") =>
            ops[i][1] = Call("Create", TRUE) /\ ops[i][2].call = "Get"

\* The calls task i issues in this step.
IssuedNow(i) == SubSeq(ops'[i], Len(ops[i]) + 1, Len(ops'[i]))

\* C19 as claimed: a download the policy allows truncates the destination
\* file before any byte is fetched, and if the Get fails the destination is
\* deleted: after a failed download the destination does not exist.
C19_FailedDownloadLeavesNothing ==
    /\ []CreateBeforeGet
    /\ [][\A i \in Objects :
            FailedGetEnds(i) =>
                /\ IssuedNow(i) # <<>>
                /\ IssuedNow(i)[1].call = "DeleteDst"
                /\ fs'[Key(dst[i])] = "absent"]_vars

\* C19 as amended: the destination is created, and so truncated, before the
\* Get; if the Get fails Delete(destination) is issued; when that Delete
\* succeeds the destination no longer exists, and when it fails nothing is
\* removed and the task returns the Delete's error.
C19_FailedDownloadCleansUp ==
    /\ []CreateBeforeGet
    /\ [][\A i \in Objects :
            FailedGetEnds(i) =>
                /\ IssuedNow(i) # <<>>
                /\ IssuedNow(i)[1].call = "DeleteDst"
                /\ IF IssuedNow(i)[1].ok
                   THEN fs'[Key(dst[i])] = "absent"
                   ELSE fs' = fs /\ err'[i] = Wrap(i, dst[i], "Delete")]_vars

C19_Witness ==
    /\ srcRemote /\ ~dstRemote /\ ~parents /\ ~srcHasGlob
    /\ seen[1] = "file" /\ dst[1] = dsturl
    /\ IssuedWith(1, "Create", TRUE) /\ IssuedWith(1, "Get", FALSE)
    /\ IssuedWith(1, "DeleteDst", TRUE)
    /\ pc[1] = "done" /\ fs[Root] = "absent"

\* No task was dispatched and no storage or file call was issued.
NothingDispatched ==
    /\ next = 1 /\ wg = 0
    /\ \A i \in Objects :
          pc[i] = "idle" /\ ops[i] = <<>> /\ dst[i] = <<>> /\ seen[i] = "none"

\* C13: a destination argument with glob characters, or an argument count
\* other than two, aborts the command at once: the source is never
\* expanded, no task is dispatched and nothing is written or deleted.
C13_ConfigurationErrorAborts ==
    (cmd.argc # 2 \/ cmd.dstHasGlob) =>
        /\ cmd.pc \in {"before", "aborted"}
        /\ cmd.pc = "aborted" => cmd.err \in {"ArgCount", "ParseDst", "GlobDst"}
        /\ cmd.expand = "none" /\ cmd.stat = "none" /\ objch = NoStream
        /\ copyPc = "idle"
        /\ NothingDispatched
        /\ fs \in InitFs

C13_Witness ==
    /\ cmd.pc = "aborted" /\ cmd.err = "GlobDst"
    /\ cmd.argc = 2 /\ cmd.dstHasGlob /\ cmd.srcValid
    /\ NothingDispatched

\* C14: a transfer from a local source to a remote destination is expanded
\* recursively whatever the recursive flag; for every other combination the
\* expander receives the value of the recursive flag.
C14_RecursiveForUpload ==
    cmd.pc \in {"expand", "loop", "returned"} /\ cmd.err \notin {"ParseSrc", "ParseDst"}
        => cmd.isRecursive = IF ~srcRemote /\ dstRemote THEN TRUE ELSE cmd.recursive

C14_Witness ==
    /\ ~srcRemote /\ dstRemote /\ ~cmd.recursive /\ cmd.isRecursive
    /\ cmd.expand = "list" /\ copyPc = "done"

\* C16: a source with a glob, or a local source without glob that stats as
\* a directory, is expanded through List; any other source (a remote one
\* without glob, not statted, or a local one without glob that stats as a
\* non-directory) yields exactly one object, the source itself, and then
\* the stream ends; a stat failure of a local source without glob makes the
\* batch return that error with no task dispatched.
C16_SourceExpansion ==
    /\ cmd.expand = "list" <=>
          /\ cmd.pc = "loop"
          /\ srcHasGlob \/ (~srcRemote /\ cmd.stat = "dir")
    /\ cmd.expand = "single" <=>
          /\ cmd.pc = "loop"
          /\ ~srcHasGlob
          /\ srcRemote \/ cmd.stat = "file"
    /\ cmd.expand = "single" =>
          /\ objch = Single
          /\ \A i \in Objects : pc[i] # "idle" => i = 1
          /\ copyPc = "done" => pc[1] = "done"
    /\ (srcRemote \/ srcHasGlob) => cmd.stat = "none"
    /\ cmd.stat = "error" =>
          /\ ~srcRemote /\ ~srcHasGlob
          /\ cmd.pc = "returned" /\ cmd.err = "Stat"
          /\ copyPc = "done" /\ result = <<Bare("Stat")>>
          /\ objch = NoStream /\ NothingDispatched

C16_Witness ==
    /\ cmd.expand = "single" /\ srcRemote /\ ~srcHasGlob /\ cmd.stat = "none"
    /\ copyPc = "done" /\ pc[1] = "done" /\ pc[2] = "idle"
    /\ outcome[1] = "ok"

====
